---- MODULE Spec2Model ----
(***************************************************************************)
(* Tenders aggregator: run_daily.main() driving the PLACSP archive         *)
(* collector (collectors/placsp643.py) and the RSS collector with detail   *)
(* enrichment (collectors/rss_generic.py), with the CPV helpers of         *)
(* collectors/utils.py.                                                    *)
(*                                                                         *)
(* Strings whose characters matter (CPV codes, the cpv column) are         *)
(* sequences of character codes: the digits are 0..9, and the other        *)
(* characters used keep their ASCII order before and after the digits.     *)
(* Every other text field is an opaque TLA+ string.                        *)
(***************************************************************************)
EXTENDS Integers, Sequences, FiniteSets, TLC

VARIABLES
    args,         \* the parsed command line (parse_args)
    conf,         \* rss_sources of config.yml
    archive,      \* upstream: the members of the monthly PLACSP zip
    feeds,        \* upstream: the entries of each configured feed
    pages,        \* upstream: the detail page behind each link
    pc,           \* position of main()
    cpv_targets,  \* main(): normalize_cpv_list(args.cpv, args.cpv_mode)
    cur,          \* main(): the day of the PLACSP loop
    attempt,      \* _http_get_bytes: the loop index i
    rows,         \* main(): rows collected so far
    src_i,        \* main(): index of the rss source being collected
    ent_i,        \* rss collect(): index of the feed entry being processed
    rss_rows,     \* rss collect(): rows
    pending,      \* rss collect(): locals of the entry whose detail is fetched
    calls,        \* main(): the collector calls made, with the rows returned
    out,          \* the rows written to the CSV
    net,          \* log of sleeps and requests, in the order issued
    runs,         \* number of the current run of the pipeline
    prev_out,     \* the CSV written by the previous run
    call,         \* arguments of a helper called on its own
    ret           \* its return value

vars == <<args, conf, archive, feeds, pages, pc, cpv_targets, cur, attempt,
          rows, src_i, ent_i, rss_rows, pending, calls, out, net, runs,
          prev_out, call, ret>>

(***************************************************************************)
(* Characters and strings                                                  *)
(***************************************************************************)
Digits == 0..9
Semi   == 10      \* ';'
Alpha  == 11      \* a letter
Space  == -1      \* ' '

\* str.strip()
RECURSIVE strip(_)
strip(c) ==
    IF c = <<>> THEN c
    ELSE IF Head(c) = Space THEN strip(Tail(c))
    ELSE IF c[Len(c)] = Space THEN strip(SubSeq(c, 1, Len(c) - 1))
    ELSE c

\* str.isdigit() on a non-empty string
isdigit(c) == Len(c) > 0 /\ \A i \in 1..Len(c) : c[i] \in Digits

\* str.startswith
startswith(v, t) == Len(t) <= Len(v) /\ SubSeq(v, 1, Len(t)) = t

\* str.zfill
RECURSIVE zfill(_, _)
zfill(c, w) == IF Len(c) >= w THEN c ELSE zfill(<<0>> \o c, w)

\* the order of str: lexicographic by character code
StrLess(a, b) ==
    \E i \in 1..(Len(b)) :
        /\ \A j \in 1..(i-1) : j <= Len(a) /\ a[j] = b[j]
        /\ \/ i = Len(a) + 1
           \/ i <= Len(a) /\ a[i] < b[i]

\* sorted(set of str)
RECURSIVE sorted(_)
sorted(S) ==
    IF S = {} THEN <<>>
    ELSE LET m == CHOOSE x \in S : \A y \in S \ {x} : StrLess(x, y)
         IN  <<m>> \o sorted(S \ {m})

\* ";".join(list of str)
RECURSIVE join(_)
join(l) ==
    IF l = <<>> THEN <<>>
    ELSE IF Len(l) = 1 THEN l[1]
    ELSE l[1] \o <<Semi>> \o join(Tail(l))

\* str.split(";")
RECURSIVE split(_)
split(s) ==
    IF \A i \in 1..Len(s) : s[i] # Semi THEN <<s>>
    ELSE LET k == CHOOSE i \in 1..Len(s) :
                      s[i] = Semi /\ \A j \in 1..(i-1) : s[j] # Semi
         IN  <<SubSeq(s, 1, k-1)>> \o split(SubSeq(s, k+1, Len(s)))

Range(l) == {l[i] : i \in 1..Len(l)}

\* every order in which the elements of a set can be listed
Orderings(S) ==
    {l \in [1..Cardinality(S) -> S] : Range(l) = S}

(***************************************************************************)
(* collectors/utils.py                                                     *)
(***************************************************************************)
CpvLen == 8

\* the instants parse_date_any yields: None for a missing or unparseable
\* candidate, the instant otherwise.  Candidates that parse carry a UTC
\* offset, so that they compare with the bounds of the window.
NoneVal == -1
Garbage == -2
parse_date_any(s) == IF s = NoneVal \/ s = Garbage THEN NoneVal ELSE s

in_date_range_none_inside(dt_val, start, end) ==
    IF dt_val = NoneVal THEN TRUE ELSE start <= dt_val /\ dt_val <= end

in_date_range(dt_val, start, end) ==
    IF dt_val = NoneVal THEN FALSE ELSE start <= dt_val /\ dt_val <= end

normalize_cpv_list_nopad(codes, mode) ==
    {strip(codes[i]) :
        i \in {j \in 1..Len(codes) :
                 LET c == strip(codes[j]) IN
                 /\ c # <<>>
                 /\ isdigit(c)
                 /\ mode # "exact" => (2 <= Len(c) /\ Len(c) <= 8)}}

normalize_cpv_list(codes, mode) ==
    {IF mode = "exact" THEN zfill(strip(codes[i]), CpvLen) ELSE strip(codes[i]) :
        i \in {j \in 1..Len(codes) :
                 LET c == strip(codes[j]) IN
                 /\ c # <<>>
                 /\ isdigit(c)
                 /\ mode # "exact" => (2 <= Len(c) /\ Len(c) <= 8)}}

cpv_match_reversed(values, targets, mode) ==
    IF targets = {} THEN TRUE
    ELSE IF values = {} THEN FALSE
    ELSE IF mode = "exact" THEN values \cap targets # {}
    ELSE \E v \in values : \E t \in targets : startswith(t, v)

cpv_match(values, targets, mode) ==
    IF targets = {} THEN TRUE
    ELSE IF values = {} THEN FALSE
    ELSE IF mode = "exact" THEN values \cap targets # {}
    ELSE \E v \in values : \E t \in targets : startswith(v, t)

\* extract_cpvs_from_text returns list(set of the regex matches): the codes
\* without repetition, in the iteration order of a set of str, which depends
\* on the per-process string hash seed.  A text is given by the sequence of
\* the 8-digit groups CPV_RE finds in it; the result is any listing.
extract_cpvs_from_text(text) == Orderings(Range(text))

(***************************************************************************)
(* CPV codes and targets used as inputs                                    *)
(***************************************************************************)
Cpv45261215 == <<4,5,2,6,1,2,1,5>>
Cpv45261216 == <<4,5,2,6,1,2,1,6>>
Cpv09330000 == <<0,9,3,3,0,0,0,0>>
Pfx4526     == <<4,5,2,6>>
Pfx0933     == <<0,9,3,3>>

Modes == {"exact", "prefix"}

(***************************************************************************)
(* cpv_match called on its own                                             *)
(***************************************************************************)
MaxMatchSet == 2

MatchCandidates == {Cpv45261215, Cpv45261216, Cpv09330000, Pfx4526}
MatchTargets    == {Cpv45261215, Pfx4526, Pfx0933, Cpv09330000}

Small(S, n) == {T \in SUBSET S : Cardinality(T) <= n}

NoCall == [op |-> "none"]
NoRet  == [op |-> "none"]

(***************************************************************************)
(* Dictionaries with optional keys (the dict a detail parser returns)      *)
(***************************************************************************)
EmptyDict == [k \in {} |-> ""]
Get(d, k, default) == IF k \in DOMAIN d THEN d[k] ELSE default
Opt(cond, k, v) == IF cond THEN k :> v ELSE EmptyDict

NoDate == NoneVal   \* the empty string in a date column

(***************************************************************************)
(* run_daily.py: the date window                                           *)
(***************************************************************************)
\* Instants are counted in ticks; a civil day d spans the ticks
\* d*TicksPerDay .. d*TicksPerDay + TicksPerDay - 1.
TicksPerDay == 2

madrid_day_bounds(d) ==
    [start |-> d * TicksPerDay, end |-> d * TicksPerDay + TicksPerDay - 1]

\* args.date is <<a>> for "a" and <<a, b>> for "a,b"
parse_date_range(arg_date) ==
    IF Len(arg_date) = 2
    THEN [start |-> madrid_day_bounds(arg_date[1]).start,
          end   |-> madrid_day_bounds(arg_date[2]).start + TicksPerDay - 1]
    ELSE madrid_day_bounds(arg_date[1])

start_dt == parse_date_range(args.date).start
end_dt   == parse_date_range(args.date).end
DayOf(t) == t \div TicksPerDay      \* datetime.date()

(***************************************************************************)
(* collectors/rss_generic.py: detail pages                                 *)
(*                                                                         *)
(* A page is given by what the extraction expressions find in it:          *)
(*   ok        the GET succeeds and the body parses                        *)
(*   h1        string(//h1|//h2), normalised                               *)
(*   caseid    first match of the case-id pattern in the page text, or ""  *)
(*   organo    text following an authority label, or ""                    *)
(*   amt_label text following a budget label and holding a euro sign       *)
(*   amt_first first euro amount of the page text, or ""                   *)
(*   cpvtable  codes of the first column of the CPV table                  *)
(*   cpvtext   8-digit groups of the page text                             *)
(***************************************************************************)
\* _get: requests.get + raise_for_status + html.fromstring; it returns the
\* document or raises, it never returns None.
_get(url) ==
    IF pages[url].ok THEN [raised |-> FALSE, doc |-> pages[url]]
    ELSE [raised |-> TRUE, doc |-> pages[url]]

\* number of arguments the label expression passes to XPath contains()
LabelContainsArgs == 1

\* _extract_amount_by_labels evaluates, for the first label,
\*   //*[contains(translate(normalize-space(text()),L,L))]/following::*[1]
\* XPath contains() takes two arguments, so the evaluation raises
\* XPathEvalError on every document that has an element.
_extract_amount_by_labels(doc) ==
    IF LabelContainsArgs # 2 THEN [raised |-> TRUE, imp |-> "", src |-> ""]
    ELSE IF doc.amt_label # ""
         THEN [raised |-> FALSE, imp |-> doc.amt_label, src |-> "label"]
    ELSE IF doc.amt_first # ""
         THEN [raised |-> FALSE, imp |-> doc.amt_first, src |-> "fallback:first-euro"]
    ELSE [raised |-> FALSE, imp |-> "", src |-> ""]

Raised == [raised |-> TRUE, out |-> EmptyDict]
Returned(d) == [raised |-> FALSE, out |-> d]

\* the keys every parser sets from (imp, src) and from the codes found
AmountKeys(amt) == ("importe" :> amt.imp) @@ ("importe_source" :> amt.src)
CpvKeys(codes) ==
    IF codes = {} THEN EmptyDict
    ELSE ("cpv" :> join(sorted(codes))) @@ ("cpv_source" :> "detail")

\* each parser yields the set of its possible outcomes
parse_detail_madrid(doc) ==
    LET amt == _extract_amount_by_labels(doc) IN
    IF amt.raised THEN {Raised}
    ELSE {Returned(("objeto" :> doc.h1)
                   @@ Opt(doc.caseid # "", "expediente", doc.caseid)
                   @@ Opt(doc.organo # "", "organo", doc.organo)
                   @@ AmountKeys(amt)
                   @@ CpvKeys(Range(cpvs))) :
             cpvs \in extract_cpvs_from_text(doc.cpvtext)}

parse_detail_galicia(doc) ==
    LET amt == _extract_amount_by_labels(doc) IN
    IF amt.raised THEN {Raised}
    ELSE {Returned(("objeto" :> doc.h1)
                   @@ Opt(doc.caseid # "", "expediente", doc.caseid)
                   @@ Opt(doc.organo # "", "organo", doc.organo)
                   @@ AmountKeys(amt)
                   @@ CpvKeys(IF Range(doc.cpvtable) # {}
                              THEN Range(doc.cpvtable) ELSE Range(cpvs))) :
             cpvs \in extract_cpvs_from_text(doc.cpvtext)}

parse_detail_generic(doc) ==
    LET amt == _extract_amount_by_labels(doc) IN
    IF amt.raised THEN {Raised}
    ELSE {Returned(("objeto" :> doc.h1)
                   @@ Opt(doc.caseid # "", "expediente", doc.caseid)
                   @@ AmountKeys(amt)
                   @@ CpvKeys(Range(cpvs))) :
             cpvs \in extract_cpvs_from_text(doc.cpvtext)}

\* Host names are sequences of pieces of text, the dots being pieces of
\* their own; `dom in host` is the substring test.
Dot == "."
HostMadrid     == <<"contratos-publicos", Dot, "comunidad", Dot, "madrid">>
HostGalicia    == <<"contratosdegalicia", Dot, "gal">>
HostWwwGalicia == <<"www", Dot>> \o HostGalicia
HostOther      == <<"example", Dot, "org">>

PARSERS_BY_DOMAIN ==
    << <<HostMadrid, "madrid">>, <<HostWwwGalicia, "galicia">>,
       <<HostGalicia, "galicia">> >>

DomInHostAtEnd(dom, host) ==
    /\ Len(dom) <= Len(host)
    /\ SubSeq(host, Len(host) - Len(dom) + 1, Len(host)) = dom
    /\ Len(dom) < Len(host) => host[Len(host) - Len(dom)] = Dot

DomInHost(dom, host) ==
    \E i \in 0..(Len(host) - Len(dom)) : SubSeq(host, i+1, i+Len(dom)) = dom

LinkGalicia == "https://www.contratosdegalicia.gal/licitacion?N=1"
LinkOther   == "https://example.org/tender/2"
Links       == {LinkGalicia, LinkOther}

\* further detail URLs, for enrich_by_detail called on its own
LinkMadrid  == "https://contratos-publicos.comunidad.madrid/contrato/3"
LinkUpper   == "https://CONTRATOSDEGALICIA.GAL/licitacion?N=4"
LinkSub     == "https://sede.contratosdegalicia.gal/licitacion?N=5"
LinkMiddle  == "https://contratosdegalicia.gal.example.org/tender/6"
LinkGlued   == "https://miscontratosdegalicia.gal/tender/7"
DetailUrls  == Links \cup {LinkMadrid, LinkUpper, LinkSub, LinkMiddle, LinkGlued}

\* the host part of a URL as written
Authority(url) ==
    CASE url = LinkGalicia -> HostWwwGalicia
      [] url = LinkMadrid  -> HostMadrid
      [] url = LinkUpper   -> <<"CONTRATOSDEGALICIA", Dot, "GAL">>
      [] url = LinkSub     -> <<"sede", Dot>> \o HostGalicia
      [] url = LinkMiddle  -> HostGalicia \o <<Dot>> \o HostOther
      [] url = LinkGlued   -> <<"mis">> \o HostGalicia
      [] OTHER             -> HostOther

\* str.lower()
lower(host) ==
    [i \in 1..Len(host) |->
        CASE host[i] = "CONTRATOSDEGALICIA" -> "contratosdegalicia"
          [] host[i] = "GAL"                -> "gal"
          [] OTHER                          -> host[i]]

\* urlparse(url).hostname
hostname(url) == lower(Authority(url))

\* the parser chosen by the dispatch loop, "" when none matches
Dispatch(host) ==
    LET hits == {i \in 1..Len(PARSERS_BY_DOMAIN) :
                    DomInHost(PARSERS_BY_DOMAIN[i][1], host)}
    IN  IF hits = {} THEN ""
        ELSE PARSERS_BY_DOMAIN[CHOOSE i \in hits : \A j \in hits : i <= j][2]

WithStatus(res, status) ==
    IF res.raised THEN res
    ELSE Returned(("detail_status" :> status) @@ res.out)

\* enrich_by_detail: the set of dicts it can return
enrich_by_detail(url) ==
    LET got  == _get(url)
        fn   == Dispatch(lower(hostname(url)))
        outs == IF got.raised THEN {Raised}
                ELSE IF fn = "madrid"
                     THEN {WithStatus(r, "parsed") : r \in parse_detail_madrid(got.doc)}
                ELSE IF fn = "galicia"
                     THEN {WithStatus(r, "parsed") : r \in parse_detail_galicia(got.doc)}
                ELSE {WithStatus(r, "fallback") : r \in parse_detail_generic(got.doc)}
    IN  {IF r.raised THEN ("detail_status" :> "exception") ELSE r.out : r \in outs}

(***************************************************************************)
(* collectors/rss_generic.py: collect                                      *)
(*                                                                         *)
(* A feed entry is given by its attributes and by what the baseline        *)
(* patterns find in title + summary:                                       *)
(*   published, updated, created   date candidates (NoneVal when absent,   *)
(*                                 Garbage when unparseable)               *)
(*   title, link                   the attributes                          *)
(*   caseid, organo, importe       first match of each pattern, or ""      *)
(*   cpvtext                       the 8-digit groups of the text          *)
(***************************************************************************)
\* the publish instant: published, updated, created, first parseable one
ResolvePub(e) ==
    IF parse_date_any(e.published) # NoneVal THEN parse_date_any(e.published)
    ELSE IF parse_date_any(e.updated) # NoneVal THEN parse_date_any(e.updated)
    ELSE parse_date_any(e.created)

BaselineAlwaysFeed(e, cpvs) ==
    [pub            |-> ResolvePub(e),
     title          |-> e.title,
     link           |-> e.link,
     expediente     |-> e.caseid,
     organo         |-> e.organo,
     importe        |-> e.importe,
     importe_source |-> "feed",
     cpvs           |-> cpvs,
     cpv_source     |-> IF cpvs # <<>> THEN "feed" ELSE "",
     detail_status  |-> ""]

\* the locals of collect() after the baseline extraction, cpvs being the list
\* extract_cpvs_from_text returned
Baseline(e, cpvs) ==
    [pub            |-> ResolvePub(e),
     title          |-> e.title,
     link           |-> e.link,
     expediente     |-> e.caseid,
     organo         |-> e.organo,
     importe        |-> e.importe,
     importe_source |-> IF e.importe # "" THEN "feed" ELSE "",
     cpvs           |-> cpvs,
     cpv_source     |-> IF cpvs # <<>> THEN "feed" ELSE "",
     detail_status  |-> ""]

NoDetailStatusSwapped(follow_detail) ==
    IF ~follow_detail THEN "no-link" ELSE "skipped"

\* the else branch of `if follow_detail and link`
NoDetailStatus(follow_detail) ==
    IF ~follow_detail THEN "skipped" ELSE "no-link"

\* the merge of the dict enrich_by_detail returned into the locals
Merge(l, extra) ==
    [l EXCEPT
       !.expediente     = Get(extra, "expediente", l.expediente),
       !.organo         = Get(extra, "organo", l.organo),
       !.importe        = Get(extra, "importe", l.importe),
       !.importe_source = IF Get(extra, "importe_source", "") # ""
                          THEN extra["importe_source"] ELSE l.importe_source,
       !.title          = Get(extra, "objeto", l.title),
       !.cpvs           = IF Get(extra, "cpv", <<>>) # <<>>
                          THEN sorted(Range(l.cpvs \o split(extra["cpv"])))
                          ELSE l.cpvs,
       !.cpv_source     = IF Get(extra, "cpv", <<>>) # <<>>
                          THEN "detail" ELSE l.cpv_source,
       !.detail_status  = Get(extra, "detail_status", "parsed")]

RssRow(source_name, l) ==
    [fuente          |-> source_name,
     expediente      |-> l.expediente,
     objeto          |-> l.title,
     organo          |-> l.organo,
     estado          |-> "",
     importe         |-> l.importe,
     cpv             |-> join(l.cpvs),
     fecha_published |-> l.pub,
     fecha_updated   |-> NoDate,
     enlace          |-> l.link,
     cpv_source      |-> l.cpv_source,
     importe_source  |-> l.importe_source,
     detail_status   |-> l.detail_status]

\* the CPV filter and rows.append
Emit(rs, source_name, l) ==
    IF cpv_targets # {} /\ ~cpv_match(Range(l.cpvs), cpv_targets, args.cpv_mode)
    THEN rs
    ELSE Append(rs, RssRow(source_name, l))

\* main(): a call of placsp_collect (key: the day) or rss_collect (key: the
\* index of the source), and the rows it returns
Invocation(family, key) ==
    [family |-> family, key |-> key, fetched |-> FALSE, returned |-> FALSE,
     rows |-> <<>>]
Fetched(cs) == [cs EXCEPT ![Len(cs)].fetched = TRUE]
Returns(cs, got) ==
    [cs EXCEPT ![Len(cs)] = [@ EXCEPT !.returned = TRUE, !.rows = got]]

NoPending == Baseline([published |-> NoneVal, updated |-> NoneVal,
                       created |-> NoneVal, title |-> "", link |-> "",
                       caseid |-> "", organo |-> "", importe |-> "",
                       cpvtext |-> <<>>], <<>>)

Source  == conf[src_i]
Entries == feeds[Source.url]
Entry   == Entries[ent_i]

Event(op, what) == [op |-> op, what |-> what, src |-> src_i, ent |-> ent_i,
                    i |-> attempt]

\* an entry whose instant is missing or outside the window: continue
RssSkip ==
    /\ pc = "rss_entry" /\ ent_i <= Len(Entries)
    /\ ~in_date_range(ResolvePub(Entry), start_dt, end_dt)
    /\ ent_i' = ent_i + 1
    /\ UNCHANGED <<args, conf, archive, feeds, pages, pc, cpv_targets, cur,
                   attempt, rows, src_i, rss_rows, pending, out, net, runs,
                   prev_out, call, ret,
                   calls>>

\* an entry in the window that is not enriched
RssPlain ==
    /\ pc = "rss_entry" /\ ent_i <= Len(Entries)
    /\ in_date_range(ResolvePub(Entry), start_dt, end_dt)
    /\ ~(Source.follow_detail /\ Entry.link # "")
    /\ \E cpvs \in extract_cpvs_from_text(Entry.cpvtext) :
         rss_rows' = Emit(rss_rows, Source.name,
                          [Baseline(Entry, cpvs) EXCEPT
                             !.detail_status = NoDetailStatus(Source.follow_detail)])
    /\ ent_i' = ent_i + 1
    /\ UNCHANGED <<args, conf, archive, feeds, pages, pc, cpv_targets, cur,
                   attempt, rows, src_i, pending, out, net, runs, prev_out,
                   call, ret,
                   calls>>

\* an entry in the window that is enriched: time.sleep(polite_delay)
RssSleep ==
    /\ pc = "rss_entry" /\ ent_i <= Len(Entries)
    /\ in_date_range(ResolvePub(Entry), start_dt, end_dt)
    /\ Source.follow_detail /\ Entry.link # ""
    /\ \E cpvs \in extract_cpvs_from_text(Entry.cpvtext) :
         pending' = Baseline(Entry, cpvs)
    /\ net' = Append(net, Event("sleep", "polite"))
    /\ pc' = "rss_detail"
    /\ UNCHANGED <<args, conf, archive, feeds, pages, cpv_targets, cur,
                   attempt, rows, src_i, ent_i, rss_rows, out, runs, prev_out,
                   call, ret,
                   calls>>

\* enrich_by_detail(link), the merge, the CPV filter and the append
RssDetail ==
    /\ pc = "rss_detail"
    /\ \E extra \in enrich_by_detail(pending.link) :
         rss_rows' = Emit(rss_rows, Source.name, Merge(pending, extra))
    /\ net' = Append(net, Event("get", "detail"))
    /\ pending' = NoPending
    /\ ent_i' = ent_i + 1
    /\ pc' = "rss_entry"
    /\ UNCHANGED <<args, conf, archive, feeds, pages, cpv_targets, cur,
                   attempt, rows, src_i, out, runs, prev_out, call, ret,
                   calls>>

\* the end of the entries: return rows; main: rows += rss_rows
RssReturn ==
    /\ pc = "rss_entry" /\ ent_i > Len(Entries)
    /\ rows' = rows \o rss_rows
    /\ calls' = Returns(calls, rss_rows)
    /\ rss_rows' = <<>>
    /\ ent_i' = 1
    /\ src_i' = src_i + 1
    /\ pc' = "rss"
    /\ UNCHANGED <<args, conf, archive, feeds, pages, cpv_targets, cur,
                   attempt, pending, out, net, runs, prev_out, call, ret>>

(***************************************************************************)
(* collectors/placsp643.py                                                 *)
(*                                                                         *)
(* The zip is a sequence of members [atom, entries]: atom tells whether    *)
(* the name ends with ".atom".  An entry is given by what the XPath        *)
(* expressions find in it:                                                 *)
(*   published, updated  the day its date text starts with, NoDate if ""   *)
(*   folder, lots        ItemClassificationCode texts per scope            *)
(*   expediente, title, organo, importe, estado, link                      *)
(***************************************************************************)
Retries == 3      \* _http_get_bytes(retries=3)

\* requests.get(url) of _http_get_bytes, attempt i, and whether it succeeded
\* (status checked by raise_for_status)
Request(ok) ==
    [op |-> "get", what |-> "zip", src |-> src_i, ent |-> ent_i,
     i |-> attempt, ok |-> ok]
BackoffNextExponent ==
    [op |-> "sleep", what |-> "backoff", src |-> src_i, ent |-> ent_i,
     i |-> attempt + 1]

\* time.sleep(backoff ** i)
Backoff == [op |-> "sleep", what |-> "backoff", src |-> src_i, ent |-> ent_i,
            i |-> attempt]

\* the text fields the rows are sorted by, in the order of str
StrOrder == <<"", "EXP/2025/1", "EXP/2025/2",
              "https://contrataciondelestado.es/a",
              "https://contrataciondelestado.es/b">>
Rank(s) == CHOOSE i \in 1..Len(StrOrder) : StrOrder[i] = s

_date_starts(e, iso_date, field) ==
    LET v == IF field = "updated" THEN e.updated ELSE e.published
    IN  v # NoDate /\ v = iso_date

_cpv_scoped(e, scope) ==
    IF scope = "folder" THEN e.folder
    ELSE IF scope = "lots" THEN e.lots
    ELSE e.folder \o e.lots

\* the targets collect() builds again from the cpv list it is given
PlacspTargets(cpv, cpv_mode) ==
    LET kept == {j \in 1..Len(cpv) :
                   LET c == strip(cpv[j]) IN
                   /\ c # <<>>
                   /\ isdigit(c)
                   /\ cpv_mode # "exact" => (2 <= Len(c) /\ Len(c) <= 8)}
    IN  {IF cpv_mode = "exact" THEN zfill(strip(cpv[j]), CpvLen)
         ELSE strip(cpv[j]) : j \in kept}

ok_date(e, date_iso, when) ==
    \/ when = "updated"   /\ _date_starts(e, date_iso, "updated")
    \/ when = "published" /\ _date_starts(e, date_iso, "published")
    \/ when = "either"    /\ (\/ _date_starts(e, date_iso, "updated")
                              \/ _date_starts(e, date_iso, "published"))

PlacspRow(e, cpvs) ==
    [fuente          |-> "PLACSP",
     expediente      |-> e.expediente,
     objeto          |-> e.title,
     organo          |-> e.organo,
     estado          |-> e.estado,
     importe         |-> e.importe,
     cpv             |-> join(sorted(cpvs)),
     fecha_published |-> e.published,
     fecha_updated   |-> e.updated,
     enlace          |-> e.link]

\* zf.read(name): the bytes of the member, or the exception of zipfile when
\* the member cannot be decompressed or fails its CRC
zf_read(m) ==
    IF m.fault = "unreadable" THEN [raised |-> TRUE, exc |-> "BadZipFile"]
    ELSE [raised |-> FALSE, exc |-> ""]

\* _iter_entries: etree.fromstring yields no root element for content that
\* cannot be recovered, and the call raises
_iter_entries(m) ==
    IF m.fault = "unparsable" THEN [raised |-> TRUE, entries |-> <<>>]
    ELSE [raised |-> FALSE, entries |-> m.entries]

\* try: zf.read(name) / except KeyError: continue
Skipped(m) == ~m.atom \/ (zf_read(m).raised /\ zf_read(m).exc = "KeyError")

\* the member loop leaves collect() with an exception
CollectRaises(zf) ==
    \E i \in 1..Len(zf) :
       /\ ~Skipped(zf[i])
       /\ zf_read(zf[i]).raised \/ _iter_entries(zf[i]).raised

\* the entries of the members whose name ends with ".atom", in order
RECURSIVE AtomEntries(_)
AtomEntries(zf) ==
    IF zf = <<>> THEN <<>>
    ELSE (IF Skipped(Head(zf)) THEN <<>> ELSE _iter_entries(Head(zf)).entries)
         \o AtomEntries(Tail(zf))

PlacspKeepAnyCode(e, date_iso, when, targets, cpv_mode, cpv_scope) ==
    ok_date(e, date_iso, when)

\* the date predicate and the CPV filter of the entry loop
PlacspKeep(e, date_iso, when, targets, cpv_mode, cpv_scope) ==
    /\ ok_date(e, date_iso, when)
    /\ ~(targets # {} /\ ~cpv_match(Range(_cpv_scoped(e, cpv_scope)), targets, cpv_mode))

RECURSIVE PlacspRows(_, _, _, _, _, _)
PlacspRows(es, date_iso, when, targets, cpv_mode, cpv_scope) ==
    IF es = <<>> THEN <<>>
    ELSE (IF PlacspKeep(Head(es), date_iso, when, targets, cpv_mode, cpv_scope)
          THEN <<PlacspRow(Head(es), Range(_cpv_scoped(Head(es), cpv_scope)))>>
          ELSE <<>>)
         \o PlacspRows(Tail(es), date_iso, when, targets, cpv_mode, cpv_scope)

KeyLeq(a, b) ==
    \/ Rank(a.expediente) < Rank(b.expediente)
    \/ /\ Rank(a.expediente) = Rank(b.expediente)
       /\ Rank(a.enlace) <= Rank(b.enlace)

\* rows.sort(key=(expediente, enlace)): a stable sort
RECURSIVE SortRows(_)
SortRows(rs) ==
    IF rs = <<>> THEN <<>>
    ELSE LET n    == Len(rs)
             init == SortRows(SubSeq(rs, 1, n-1))
             k    == Cardinality({i \in 1..Len(init) : KeyLeq(init[i], rs[n])})
         IN  SubSeq(init, 1, k) \o <<rs[n]>> \o SubSeq(init, k+1, Len(init))

\* collect() once the zip is fetched; cpv is the list main() passes
placsp_collect(zf, date_iso, when, cpv, cpv_mode, cpv_scope) ==
    SortRows(PlacspRows(AtomEntries(zf), date_iso, when,
                        PlacspTargets(cpv, cpv_mode), cpv_mode, cpv_scope))

(***************************************************************************)
(* run_daily.py: main                                                      *)
(***************************************************************************)
Key(r) == <<r.fuente, r.expediente, r.enlace>>

DedupeKeepLast(rs) ==
    LET keep == {i \in 1..Len(rs) : \A j \in (i+1)..Len(rs) : Key(rs[j]) # Key(rs[i])}
        F[i \in 0..Len(rs)] ==
            IF i = 0 THEN <<>>
            ELSE IF i \in keep THEN Append(F[i-1], rs[i]) ELSE F[i-1]
    IN  F[Len(rs)]

\* step 3 of main(): seen / uniq
Dedupe(rs) ==
    LET F[i \in 0..Len(rs)] ==
            IF i = 0 THEN [seen |-> {}, uniq |-> <<>>]
            ELSE IF Key(rs[i]) \in F[i-1].seen THEN F[i-1]
            ELSE [seen |-> F[i-1].seen \cup {Key(rs[i])},
                  uniq |-> Append(F[i-1].uniq, rs[i])]
    IN  F[Len(rs)].uniq

\* the CSV row: {c: r.get(c, "") for c in cols}
Cols(r) ==
    [fuente |-> r.fuente, expediente |-> r.expediente, objeto |-> r.objeto,
     organo |-> r.organo, estado |-> r.estado, importe |-> r.importe,
     cpv |-> r.cpv, fecha_published |-> r.fecha_published,
     fecha_updated |-> r.fecha_updated, enlace |-> r.enlace]

WriteCsv(uniq) == [i \in 1..Len(uniq) |-> Cols(uniq[i])]

MaxRuns == 2

\* parse_date_range, normalize_cpv_list, rows = []
Start ==
    /\ pc = "start"
    /\ cpv_targets' = normalize_cpv_list(args.cpv, args.cpv_mode)
    /\ rows' = <<>>
    /\ cur' = start_dt
    /\ pc' = IF ~args.no_placsp THEN "placsp" ELSE "rss"
    /\ UNCHANGED <<args, conf, archive, feeds, pages, attempt, src_i, ent_i,
                   rss_rows, pending, out, net, runs, prev_out, call, ret,
                   calls>>

\* while cur.date() <= end_dt.date(): placsp_collect(...) -> _http_get_bytes
PlacspCall ==
    /\ pc = "placsp" /\ DayOf(cur) <= DayOf(end_dt)
    /\ attempt' = 0
    /\ net' = <<>>
    /\ pc' = "http_get"
    /\ calls' = Append(calls, Invocation("placsp", DayOf(cur)))
    /\ UNCHANGED <<args, conf, archive, feeds, pages, cpv_targets, cur, rows,
                   src_i, ent_i, rss_rows, pending, out, runs, prev_out,
                   call, ret>>

PlacspDone ==
    /\ pc = "placsp" /\ ~(DayOf(cur) <= DayOf(end_dt))
    /\ pc' = "rss"
    /\ UNCHANGED <<args, conf, archive, feeds, pages, cpv_targets, cur,
                   attempt, rows, src_i, ent_i, rss_rows, pending, out, net,
                   runs, prev_out, call, ret,
                   calls>>

\* requests.get succeeds: the rest of collect() runs, and main() appends
\* unless the member loop raises
HttpGetOk ==
    /\ pc = "http_get"
    /\ net' = Append(net, Request(TRUE))
    /\ IF CollectRaises(archive)
       THEN /\ calls' = Fetched(calls)
            /\ pc' = "aborted"
            /\ UNCHANGED <<rows, cur, attempt>>
       ELSE /\ \E cpv \in Orderings(cpv_targets) :
                 LET got == placsp_collect(archive, DayOf(cur), args.when, cpv,
                                           args.cpv_mode, args.cpv_scope)
                 IN  /\ rows' = rows \o got
                     /\ calls' = Returns(Fetched(calls), got)
            /\ cur' = cur + TicksPerDay
            /\ attempt' = 0
            /\ pc' = "placsp"
    /\ UNCHANGED <<args, conf, archive, feeds, pages, cpv_targets, src_i,
                   ent_i, rss_rows, pending, out, runs, prev_out, call, ret>>

\* requests.get fails and attempts remain: time.sleep(backoff**i)
HttpGetRetry ==
    /\ pc = "http_get" /\ attempt < Retries - 1
    /\ net' = net \o <<Request(FALSE), Backoff>>
    /\ attempt' = attempt + 1
    /\ UNCHANGED <<args, conf, archive, feeds, pages, pc, cpv_targets, cur,
                   rows, src_i, ent_i, rss_rows, pending, out, runs, prev_out,
                   call, ret,
                   calls>>

\* the last attempt fails: RuntimeError, which neither collect() nor main()
\* catches
HttpGetRaise ==
    /\ pc = "http_get" /\ ~(attempt < Retries - 1)
    /\ net' = Append(net, Request(FALSE))
    /\ pc' = "aborted"
    /\ UNCHANGED <<args, conf, archive, feeds, pages, cpv_targets, cur,
                   attempt, rows, src_i, ent_i, rss_rows, pending, out, runs,
                   prev_out, call, ret,
                   calls>>

\* for src in rss_sources: rss_collect(...) -> feedparser.parse(feed_url)
RssCall ==
    /\ pc = "rss" /\ ~args.no_rss /\ src_i <= Len(conf)
    /\ IF Source.name # "" /\ Source.url # ""
       THEN /\ net' = <<Event("get", "feed")>>
            /\ ent_i' = 1
            /\ rss_rows' = <<>>
            /\ pc' = "rss_entry"
            /\ calls' = Append(calls, Invocation("rss", src_i))
            /\ UNCHANGED src_i
       ELSE /\ src_i' = src_i + 1
            /\ UNCHANGED <<net, ent_i, rss_rows, pc, calls>>
    /\ UNCHANGED <<args, conf, archive, feeds, pages, cpv_targets, cur,
                   attempt, rows, pending, out, runs, prev_out, call, ret>>

RssDone ==
    /\ pc = "rss" /\ (args.no_rss \/ src_i > Len(conf))
    /\ pc' = "dedupe"
    /\ UNCHANGED <<args, conf, archive, feeds, pages, cpv_targets, cur,
                   attempt, rows, src_i, ent_i, rss_rows, pending, out, net,
                   runs, prev_out, call, ret,
                   calls>>

\* step 3: de-dupe and write the CSV
DedupeAndWrite ==
    /\ pc = "dedupe"
    /\ out' = WriteCsv(Dedupe(rows))
    /\ pc' = "done"
    /\ UNCHANGED <<args, conf, archive, feeds, pages, cpv_targets, cur,
                   attempt, rows, src_i, ent_i, rss_rows, pending, net, runs,
                   prev_out, call, ret,
                   calls>>

\* the scheduled job runs again with the same parameters and upstream
Rerun ==
    /\ pc = "done" /\ runs < MaxRuns
    /\ runs' = runs + 1
    /\ prev_out' = out
    /\ pc' = "start"
    /\ cpv_targets' = {} /\ cur' = 0 /\ attempt' = 0 /\ rows' = <<>>
    /\ src_i' = 1 /\ ent_i' = 1 /\ rss_rows' = <<>> /\ pending' = NoPending
    /\ out' = <<>> /\ net' = <<>> /\ calls' = <<>>
    /\ UNCHANGED <<args, conf, archive, feeds, pages, call, ret>>

\* cpv_match(values, targets, mode) called with the arguments in `call`
CallCpvMatch ==
    /\ call.op = "cpv_match" /\ ret = NoRet
    /\ ret' = [op |-> "cpv_match",
               val |-> cpv_match(call.values, call.targets, call.mode)]
    /\ UNCHANGED <<args, conf, archive, feeds, pages, pc, cpv_targets, cur,
                   attempt, rows, src_i, ent_i, rss_rows, pending, out, net,
                   runs, prev_out, call,
                   calls>>

\* enrich_by_detail(url) called with the url in `call`; fn is the parser the
\* dispatch loop picked, "" for none, when the page was fetched
CallEnrich ==
    /\ call.op = "enrich_by_detail" /\ ret = NoRet
    /\ \E r \in enrich_by_detail(call.url) :
         ret' = [op |-> "enrich_by_detail", val |-> r,
                 fetched |-> ~_get(call.url).raised,
                 fn |-> Dispatch(lower(hostname(call.url)))]
    /\ UNCHANGED <<args, conf, archive, feeds, pages, pc, cpv_targets, cur,
                   attempt, rows, src_i, ent_i, rss_rows, pending, calls, out,
                   net, runs, prev_out, call>>

\* normalize_cpv_list(codes, mode) called with the arguments in `call`,
\* and the targets the archive collector builds from list(result)
CallNormalize ==
    /\ call.op = "normalize" /\ ret = NoRet
    /\ LET val == normalize_cpv_list(call.codes, call.mode)
       IN  ret' = [op |-> "normalize", val |-> val,
                   again |-> {PlacspTargets(l, call.mode) : l \in Orderings(val)}]
    /\ UNCHANGED <<args, conf, archive, feeds, pages, pc, cpv_targets, cur,
                   attempt, rows, src_i, ent_i, rss_rows, pending, out, net,
                   runs, prev_out, call,
                   calls>>

(***************************************************************************)
(* Inputs                                                                  *)
(***************************************************************************)
MaxDays           == 2    \* days 1..MaxDays can be named by --date
MaxFeedEntries    == 2    \* entries of a feed
MaxArchiveEntries == 2    \* entries of the archive

SeqsUpTo(S, n) == UNION {[1..k -> S] : k \in 0..n}

Dates == {<<a>> : a \in 1..MaxDays}
         \cup {<<a, b>> : <<a, b>> \in (1..MaxDays) \X (1..MaxDays)}

NonNumeric == <<Alpha, 1, 2>>

\* --cpv and --cpv-mode
CpvArgs == {[cpv |-> <<Cpv45261215>>, mode |-> "exact"],
            [cpv |-> <<Pfx4526>>, mode |-> "prefix"],
            [cpv |-> <<NonNumeric>>, mode |-> "exact"]}

\* --when and --cpv-scope
ScopeArgs == {[when |-> w, scope |-> s] :
                <<w, s>> \in {"updated", "published", "either"}
                             \X {"folder", "lots", "both"}}

MkArgs(date, c, w, no_placsp, no_rss) ==
    [date |-> date, when |-> w.when, cpv |-> c.cpv, cpv_mode |-> c.mode,
     cpv_scope |-> w.scope, no_placsp |-> no_placsp, no_rss |-> no_rss]

SourceA  == [name |-> "Galicia", url |-> "https://feed.a/rss", follow_detail |-> TRUE]
SourceA0 == [name |-> "Galicia", url |-> "https://feed.a/rss", follow_detail |-> FALSE]
SourceB  == [name |-> "Madrid", url |-> "https://feed.b/rss", follow_detail |-> FALSE]
Nameless == [name |-> "", url |-> "https://feed.b/rss", follow_detail |-> FALSE]
Urls     == {"https://feed.a/rss", "https://feed.b/rss"}

\* instants of day 1, of the day before and of the day after
T0 == 1 * TicksPerDay - 1
T1 == 1 * TicksPerDay
T2 == 2 * TicksPerDay

FeedEntry(p, u, c, l, k, imp, t) ==
    [published |-> p, updated |-> u, created |-> c, title |-> "Obra",
     link |-> l, caseid |-> k, organo |-> "Concello", importe |-> imp,
     cpvtext |-> t]

FeedEntryPool ==
    { FeedEntry(T1, NoneVal, NoneVal, LinkGalicia, "A/2025/1", "", <<>>),
      FeedEntry(T1, NoneVal, NoneVal, LinkGalicia, "A/2025/1", "10,00 €",
                <<Cpv45261215, Cpv09330000>>),
      FeedEntry(Garbage, T1, NoneVal, LinkOther, "", "10,00 €", <<Cpv45261215>>),
      FeedEntry(NoneVal, NoneVal, T2, "", "A/2025/1", "",
                <<Cpv45261216, Cpv09330000, Cpv45261216>>),
      FeedEntry(T0, T1, NoneVal, LinkGalicia, "", "", <<Cpv45261215>>),
      FeedEntry(NoneVal, Garbage, NoneVal, LinkOther, "", "", <<Cpv45261215>>),
      FeedEntry(T1, NoneVal, NoneVal, "", "", "20,00 €", <<Cpv09330000>>) }

Page(ok, h1, k, org, al, af, tab, txt) ==
    [ok |-> ok, h1 |-> h1, caseid |-> k, organo |-> org, amt_label |-> al,
     amt_first |-> af, cpvtable |-> tab, cpvtext |-> txt]

PageRich  == Page(TRUE, "Obra de reforma", "B/2025/9", "Xunta", "1.234,56 €",
                  "1.234,56 €", <<Cpv45261215>>, <<Cpv45261215, Cpv45261216>>)
PageBare  == Page(TRUE, "", "", "", "", "", <<>>, <<>>)
PageDown  == Page(FALSE, "", "", "", "", "", <<>>, <<>>)

PagesPool == {[l \in Links |-> IF l = LinkGalicia THEN a ELSE b] :
                <<a, b>> \in {PageRich, PageDown} \X {PageRich, PageBare}}

ArchiveEntry(p, u, f, l, k, link, st) ==
    [published |-> p, updated |-> u, folder |-> f, lots |-> l,
     expediente |-> k, title |-> "Suministro", organo |-> "Ministerio",
     importe |-> "1000", estado |-> st, link |-> link]

\* an ItemClassificationCode text that is not a bare code
OddCode == Pfx4526 \o <<Semi, 1, 2>>

ArchiveEntryPool ==
    { ArchiveEntry(1, 2, <<Cpv45261215>>, <<Cpv09330000>>, "EXP/2025/1",
                   "https://contrataciondelestado.es/a", "PUB"),
      ArchiveEntry(2, 1, <<Cpv45261216, Cpv09330000>>, <<>>, "EXP/2025/1",
                   "https://contrataciondelestado.es/a", "ADJ"),
      ArchiveEntry(1, NoDate, <<Cpv45261215, Cpv45261215>>, <<OddCode>>, "",
                   "https://contrataciondelestado.es/b", "EV") }

\* the zip: one syndication member and one member that is not an .atom file
Archives ==
    {<<[atom |-> TRUE, fault |-> "ok", entries |-> es],
       [atom |-> FALSE, fault |-> "ok", entries |-> <<>>]>> :
        es \in SeqsUpTo(ArchiveEntryPool, MaxArchiveEntries)}

NoFeeds == [u \in Urls |-> <<>>]
NoPages == [l \in Links |-> PageDown]

Idle ==
    /\ cpv_targets = {} /\ cur = 0 /\ attempt = 0 /\ rows = <<>>
    /\ src_i = 1 /\ ent_i = 1 /\ rss_rows = <<>> /\ pending = NoPending
    /\ out = <<>> /\ net = <<>> /\ runs = 1 /\ prev_out = <<>>
    /\ calls = <<>>

\* a run of the feed family alone, over every feed of the pool
InitFeed ==
    /\ args \in {MkArgs(d, c, CHOOSE w \in ScopeArgs : w.when = "either", TRUE, FALSE) :
                   <<d, c>> \in {<<1>>, <<1, 2>>} \X CpvArgs}
    /\ conf \in {<<SourceA>>, <<SourceA0>>}
    /\ archive = <<>>
    /\ feeds \in {[u \in Urls |-> IF u = SourceA.url THEN f ELSE <<>>] :
                    f \in SeqsUpTo(FeedEntryPool, MaxFeedEntries)}
    /\ pages \in PagesPool
    /\ pc = "start" /\ Idle
    /\ call = NoCall /\ ret = NoRet

NextFeed ==
    \/ Start \/ RssCall \/ RssSkip \/ RssPlain \/ RssSleep \/ RssDetail
    \/ RssReturn \/ RssDone \/ DedupeAndWrite

SpecFeed == InitFeed /\ [][NextFeed]_vars

\* cpv_match on its own, over small sets of candidates and targets
InitMatch ==
    /\ call \in {[op |-> "cpv_match", values |-> v, targets |-> t, mode |-> m] :
                   <<v, t, m>> \in Small(MatchCandidates, MaxMatchSet)
                                   \X Small(MatchTargets, MaxMatchSet) \X Modes}
    /\ ret = NoRet
    /\ args = MkArgs(<<1>>, CHOOSE c \in CpvArgs : c.mode = "prefix",
                     CHOOSE w \in ScopeArgs : w.when = "either", TRUE, TRUE)
    /\ conf = <<>> /\ archive = <<>> /\ feeds = NoFeeds /\ pages = NoPages
    /\ pc = "idle" /\ Idle

NextMatch == CallCpvMatch

\* normalize_cpv_list on its own, over short lists of raw --cpv entries
MaxRawCodes == 2

RawCodes == {<<9, 3, 3>>, <<Alpha, Alpha, Alpha, 1, 2, 3>>, <<>>, <<Space>>,
             <<Space, 9, 3, 3, Space>>, <<4>>, Pfx4526, Cpv45261215,
             <<1, 2, 3, 4, 5, 6, 7, 8, 9>>, <<4, 5, Semi, 6>>}

InitNormalize ==
    /\ call \in {[op |-> "normalize", codes |-> l, mode |-> m] :
                   <<l, m>> \in SeqsUpTo(RawCodes, MaxRawCodes) \X Modes}
    /\ ret = NoRet
    /\ args = MkArgs(<<1>>, CHOOSE c \in CpvArgs : c.mode = "prefix",
                     CHOOSE w \in ScopeArgs : w.when = "either", TRUE, TRUE)
    /\ conf = <<>> /\ archive = <<>> /\ feeds = NoFeeds /\ pages = NoPages
    /\ pc = "idle" /\ Idle

NextNormalize == CallNormalize

SpecNormalize == InitNormalize /\ [][NextNormalize]_vars

\* enrich_by_detail on its own, over the detail URLs and pages
InitEnrich ==
    /\ call \in {[op |-> "enrich_by_detail", url |-> u] : u \in DetailUrls}
    /\ ret = NoRet
    /\ pages \in {[l \in DetailUrls |-> IF l = call.url THEN a ELSE b] :
                    <<a, b>> \in {PageRich, PageBare, PageDown}
                                 \X {PageRich, PageBare, PageDown}}
    /\ args = MkArgs(<<1>>, CHOOSE c \in CpvArgs : c.mode = "prefix",
                     CHOOSE w \in ScopeArgs : w.when = "either", TRUE, TRUE)
    /\ conf = <<>> /\ archive = <<>> /\ feeds = NoFeeds
    /\ pc = "idle" /\ Idle

NextEnrich == CallEnrich

SpecEnrich == InitEnrich /\ [][NextEnrich]_vars

SpecMatch == InitMatch /\ [][NextMatch]_vars

\* the feeds and pages of a run of both families
MainFeeds ==
    {[u \in Urls |-> IF u = SourceA.url THEN fa ELSE fb] :
        <<fa, fb>> \in
          {<<>>, <<FeedEntry(T1, NoneVal, NoneVal, LinkGalicia, "A/2025/1",
                             "10,00 €", <<Cpv45261215, Cpv09330000>>)>>}
          \X
          {<<FeedEntry(Garbage, T1, NoneVal, LinkOther, "", "10,00 €",
                       <<Cpv45261215>>)>>,
           <<FeedEntry(T1, NoneVal, NoneVal, "", "", "20,00 €", <<Cpv09330000>>),
             FeedEntry(T1, NoneVal, NoneVal, "", "", "", <<Cpv09330000>>)>>}}

MainPages ==
    {[l \in Links |-> IF l = LinkGalicia THEN a ELSE PageBare] :
        a \in {PageRich, PageDown}}

InitUpstream(d, c, w, no_placsp, no_rss) ==
    /\ args = MkArgs(d, c, w, no_placsp, no_rss)
    /\ IF no_placsp THEN archive = <<>> ELSE archive \in Archives
    /\ IF no_rss
       THEN conf = <<>> /\ feeds = NoFeeds /\ pages = NoPages
       ELSE /\ conf \in {<<SourceA, SourceB>>, <<Nameless, SourceA0>>}
            /\ feeds \in MainFeeds
            /\ pages \in MainPages

\* a run of main() over every combination of the inputs above
Init ==
    /\ \E d \in Dates, c \in CpvArgs, w \in ScopeArgs,
          f \in {<<FALSE, FALSE>>, <<TRUE, FALSE>>, <<FALSE, TRUE>>} :
         /\ (f[1] => w.when = "either")
         /\ InitUpstream(d, c, w, f[1], f[2])
    /\ pc = "start" /\ Idle
    /\ call = NoCall /\ ret = NoRet

Next ==
    \/ Start
    \/ PlacspCall \/ HttpGetOk \/ HttpGetRetry \/ HttpGetRaise \/ PlacspDone
    \/ RssCall \/ RssSkip \/ RssPlain \/ RssSleep \/ RssDetail \/ RssReturn
    \/ RssDone
    \/ DedupeAndWrite

Spec == Init /\ [][Next]_vars

\* a run of the archive family alone over archives of good members, members
\* that cannot be read and members that cannot be parsed
MaxMembers == 2

Member(atom, fault, es) == [atom |-> atom, fault |-> fault, entries |-> es]

MemberPool ==
    LET e == CHOOSE x \in ArchiveEntryPool : x.estado = "PUB"
        f == CHOOSE x \in ArchiveEntryPool : x.estado = "EV"
    IN  { Member(TRUE, "ok", <<e>>), Member(TRUE, "ok", <<f, e>>),
          Member(TRUE, "unreadable", <<f>>), Member(TRUE, "unparsable", <<>>),
          Member(FALSE, "ok", <<>>), Member(FALSE, "unreadable", <<>>) }

InitArchive ==
    /\ \E d \in {<<1>>, <<1, 2>>}, c \in CpvArgs, w \in ScopeArgs :
         args = MkArgs(d, c, w, FALSE, TRUE)
    /\ archive \in SeqsUpTo(MemberPool, MaxMembers)
    /\ conf = <<>> /\ feeds = NoFeeds /\ pages = NoPages
    /\ pc = "start" /\ Idle
    /\ call = NoCall /\ ret = NoRet

NextArchive ==
    \/ Start
    \/ PlacspCall \/ HttpGetOk \/ HttpGetRetry \/ HttpGetRaise \/ PlacspDone
    \/ RssDone
    \/ DedupeAndWrite

SpecArchive == InitArchive /\ [][NextArchive]_vars

\* two consecutive runs with the same parameters against the same upstream
InitRerun ==
    /\ \E d \in {<<1>>, <<1, 2>>, <<2>>}, c \in CpvArgs :
         InitUpstream(d, c, CHOOSE w \in ScopeArgs : w.when = "either",
                      FALSE, FALSE)
    /\ Len(archive[1].entries) <= 1
    /\ pc = "start" /\ Idle
    /\ call = NoCall /\ ret = NoRet

NextRerun == Next \/ Rerun

SpecRerun == InitRerun /\ [][NextRerun]_vars

(***************************************************************************)
(* Properties                                                              *)
(***************************************************************************)
IsPrefixOf(t, c) == \E rest \in {SubSeq(c, Len(t)+1, Len(c))} :
                        Len(t) <= Len(c) /\ c = t \o rest

\* a code matches the targets under the mode
Matches(c, targets, mode) ==
    \E t \in targets : IF mode = "exact" THEN c = t ELSE IsPrefixOf(t, c)

\* the codes of a cpv column
CodesOf(field) == IF field = <<>> THEN {} ELSE Range(split(field))

\* the window of the run and the entries inside it, as section 4.2 and 4.4
\* define them: first parseable of published, updated, created, inclusive
WindowFirst == args.date[1] * TicksPerDay
WindowLast  == args.date[Len(args.date)] * TicksPerDay + TicksPerDay - 1
InWindowSpec(e) ==
    LET cands == <<e.published, e.updated, e.created>>
        ok    == {i \in 1..3 : cands[i] >= 0}
    IN  /\ ok # {}
        /\ LET t == cands[CHOOSE i \in ok : \A j \in ok : i <= j]
           IN  WindowFirst <= t /\ t <= WindowLast

\* C1: the rows written hold no two rows with the same (source, case-id,
\* link); for every triple of the concatenated rows they hold exactly the
\* first row carrying it, and the survivors keep their relative order.
C1_DedupKeepsFirst ==
    pc = "done" =>
      LET first == {i \in 1..Len(rows) :
                      \A j \in 1..(i-1) : Key(rows[j]) # Key(rows[i])}
          nth(k) == CHOOSE i \in first :
                      Cardinality({j \in first : j < i}) = k - 1
      IN  /\ Len(out) = Cardinality(first)
          /\ \A k \in 1..Len(out) : out[k] = Cols(rows[nth(k)])
          /\ \A a, b \in 1..Len(out) :
               a # b => <<out[a].fuente, out[a].expediente, out[a].enlace>>
                        # <<out[b].fuente, out[b].expediente, out[b].enlace>>

\* two rows share the triple and differ elsewhere, and another row follows
C1_Witness ==
    /\ pc = "done" /\ Len(out) >= 2
    /\ \E i, j \in 1..Len(rows) :
         /\ i < j /\ Key(rows[i]) = Key(rows[j]) /\ rows[i] # rows[j]
         /\ out[1] = Cols(rows[i])

\* the values the detail page of a link shows
DetailAmount(d) ==
    IF ~d.ok THEN "" ELSE IF d.amt_label # "" THEN d.amt_label ELSE d.amt_first
DetailTitle(d)  == IF d.ok THEN d.h1 ELSE ""
DetailCaseId(d) == IF d.ok THEN d.caseid ELSE ""
DetailOrgano(d, link) ==
    IF d.ok /\ Dispatch(hostname(link)) # "" THEN d.organo ELSE ""
DetailCodes(d, link) ==
    IF ~d.ok THEN {}
    ELSE IF Dispatch(hostname(link)) = "galicia" /\ d.cpvtable # <<>>
         THEN Range(d.cpvtable)
    ELSE Range(d.cpvtext)
Pick(dv, fv) == IF dv # "" THEN dv ELSE fv

\* C2: for every enriched entry and each of amount, title, case-id and
\* authority, a non-empty value of the detail page overwrites the feed
\* value and an empty or absent one leaves the feed value in the record.
C2_MergePrecedence ==
    [][(pc = "rss_detail" /\ pc' = "rss_entry" /\ cpv_targets = {}) =>
         LET e == Entry
             d == pages[e.link]
             r == rss_rows'[Len(rss_rows')]
         IN  /\ Len(rss_rows') = Len(rss_rows) + 1
             /\ r.importe    = Pick(DetailAmount(d), e.importe)
             /\ r.objeto     = Pick(DetailTitle(d), e.title)
             /\ r.expediente = Pick(DetailCaseId(d), e.caseid)
             /\ r.organo     = Pick(DetailOrgano(d, e.link), e.organo)]_vars

\* C3: a failed archive fetch never leaves the run aborted: main() goes on
\* with the remaining days and sources and writes the CSV.
C3_FatalFetchIsolated ==
    ~(pc = "aborted" /\ ~calls[Len(calls)].fetched)

\* C4: a second run with the same parameters against the same upstream
\* writes the same rows as the first, field for field.
C4_RerunIdentical == (runs = 2 /\ pc = "done") => out = prev_out

\* C5: the cpv column of every record is a semicolon-joined list of 8-digit
\* codes, ascending and without repetition.
C5_CpvSerialization ==
    \A k \in 1..Len(rss_rows) :
        LET l == split(rss_rows[k].cpv) IN
        rss_rows[k].cpv # <<>> =>
          /\ \A i \in 1..Len(l) : Len(l[i]) = CpvLen /\ isdigit(l[i])
          /\ \A i, j \in 1..Len(l) : i < j => StrLess(l[i], l[j])

\* C6: the courtesy delay and the detail request are issued only for
\* entries that passed the window test, and an entry whose instant is
\* missing or outside the window yields no record.
C6_DateTestBeforeFetch ==
    pc \in {"rss_entry", "rss_detail"} =>
      /\ \A k \in 1..Len(net) :
           net[k].what \in {"polite", "detail"} =>
             InWindowSpec(feeds[conf[net[k].src].url][net[k].ent])
      /\ pc = "rss_detail" => InWindowSpec(Entry)
      /\ \A k \in 1..Len(rss_rows) :
           /\ WindowFirst <= rss_rows[k].fecha_published
           /\ rss_rows[k].fecha_published <= WindowLast
      /\ Len(rss_rows) <= Cardinality({k \in 1..(ent_i - 1) : InWindowSpec(Entries[k])})

\* an entry outside the window, with a link and follow-detail on, has been
\* passed over while another entry of the feed was fetched
C6_Witness ==
    /\ pc = "rss_entry" /\ Source.follow_detail
    /\ \E k \in 1..(ent_i - 1) :
         ~InWindowSpec(Entries[k]) /\ Entries[k].link # ""
    /\ \E k \in 1..Len(net) : net[k].what = "detail"

DetailStatuses ==
    {"parsed", "fallback", "fetch-failed", "exception", "skipped", "no-link"}

\* C7: a failure of the detail fetch or extraction never leaves the
\* collector: it is the record's detail status, the remaining entries are
\* processed, every status is one of the six, skipped exactly when
\* follow-detail is off and no-link exactly when it is on without a link.
C7_BestEffortEnrichment ==
    /\ pc # "aborted"
    /\ pc \in {"rss_entry", "rss_detail"} =>
         \A k \in 1..Len(rss_rows) :
            LET r == rss_rows[k] IN
            /\ r.detail_status \in DetailStatuses
            /\ r.detail_status = "skipped" <=> ~Source.follow_detail
            /\ r.detail_status = "no-link" <=>
                 (Source.follow_detail /\ r.enlace = "")
            /\ (Source.follow_detail /\ r.enlace # "" /\ ~pages[r.enlace].ok)
                 => r.detail_status \in {"exception", "fetch-failed"}
    /\ (pc = "rss" /\ src_i = 2 /\ cpv_targets = {}) =>
         Len(rows) = Cardinality({k \in 1..Len(feeds[conf[1].url]) :
                                     InWindowSpec(feeds[conf[1].url][k])})

\* the record of an entry whose page could not be fetched, followed by the
\* record of a later entry
C7_Witness ==
    /\ Len(rss_rows) >= 2
    /\ rss_rows[1].detail_status = "exception"
    /\ ~pages[rss_rows[1].enlace].ok

\* C8: for every enriched entry the codes filtered on and emitted are the
\* union of the codes of the feed text and of the detail page, and the
\* entry is emitted exactly when that union matches the targets.
C8_UnionThenFilter ==
    [][(pc = "rss_detail" /\ pc' = "rss_entry") =>
         LET e     == Entry
             union == Range(e.cpvtext) \cup DetailCodes(pages[e.link], e.link)
             hit   == \/ cpv_targets = {}
                      \/ \E c \in union : Matches(c, cpv_targets, args.cpv_mode)
         IN  IF hit
             THEN /\ Len(rss_rows') = Len(rss_rows) + 1
                  /\ CodesOf(rss_rows'[Len(rss_rows')].cpv) = union
             ELSE rss_rows' = rss_rows]_vars

\* C9: with a non-empty target set, every row collected or written has in
\* its cpv column, split on ';', a code matching the targets under the mode.
C9_FilterSoundness ==
    cpv_targets # {} =>
      \A r \in Range(rows) \cup Range(rss_rows) \cup Range(out) :
         \E c \in Range(split(r.cpv)) : Matches(c, cpv_targets, args.cpv_mode)

\* a prefix run that wrote an archive row and a feed row and dropped a row
C9_Witness ==
    /\ pc = "done" /\ cpv_targets # {} /\ args.cpv_mode = "prefix"
    /\ \E r \in Range(out) : r.fuente = "PLACSP"
    /\ \E r \in Range(out) : r.fuente # "PLACSP"
    /\ \E e \in Range(AtomEntries(archive)) :
         \A r \in Range(out) : r.fuente = "PLACSP" => r.estado # e.estado

\* the entries of a raw list that are numeric once surrounding blanks are
\* removed, without those blanks
Trimmed(c) ==
    LET inner == {i \in 1..Len(c) : c[i] # Space}
    IN  IF inner = {} THEN <<>>
        ELSE LET lo == CHOOSE i \in inner : \A j \in inner : i <= j
                 hi == CHOOSE i \in inner : \A j \in inner : j <= i
             IN  [k \in 1..(hi - lo + 1) |-> c[lo + k - 1]]
NumericEntries(codes) ==
    {Trimmed(codes[i]) : i \in {j \in 1..Len(codes) :
        /\ Trimmed(codes[j]) # <<>>
        /\ \A k \in 1..Len(Trimmed(codes[j])) : Trimmed(codes[j])[k] \in 0..9}}
PadLeft(n) ==
    IF Len(n) >= 8 THEN n ELSE [k \in 1..(8 - Len(n)) |-> 0] \o n

\* C11: in exact mode normalize yields exactly the numeric entries padded
\* with zeros on the left to 8 digits, in prefix mode exactly the numeric
\* entries of 2 to 8 digits unchanged; no other entry appears; and the
\* targets the archive collector builds from that result are the result.
C11_Normalize ==
    ret.op = "normalize" =>
      LET num == NumericEntries(call.codes) IN
      /\ call.mode = "exact" => ret.val = {PadLeft(n) : n \in num}
      /\ call.mode = "prefix" =>
           ret.val = {n \in num : 2 <= Len(n) /\ Len(n) <= 8}
      /\ \A x \in ret.val : x # <<>> /\ \A k \in 1..Len(x) : x[k] \in 0..9
      /\ ret.again = {ret.val}

\* an exact call that pads "933" and drops a non-numeric entry
C11_Witness ==
    /\ ret.op = "normalize" /\ call.mode = "exact"
    /\ <<0, 0, 0, 0, 0, 9, 3, 3>> \in ret.val
    /\ \E i \in 1..Len(call.codes) : Alpha \in Range(call.codes[i])
    /\ Cardinality(ret.val) = 1

\* the requests of the archive fetch under way or just ended
ZipLog == net # <<>> /\ net[1].what = "zip"
Gets == {k \in 1..Len(net) : net[k].op = "get"}
GetsUpTo(k) == Cardinality({j \in Gets : j <= k})

\* C13: one archive fetch issues at most 3 requests and is over once 3 are
\* issued; nothing is issued after the first successful request, whose
\* content is returned; each failed attempt i but the third is followed by
\* one wait of backoff^i and waits occur nowhere else; the fetch raises
\* exactly when 3 requests were issued and all of them failed.
C13_FetchRetry ==
    ZipLog =>
      /\ Cardinality(Gets) <= 3
      /\ Cardinality(Gets) = 3 => pc # "http_get"
      /\ \A k \in Gets :
           /\ net[k].i = GetsUpTo(k) - 1
           /\ net[k].ok => /\ k = Len(net)
                           /\ calls[Len(calls)].fetched
                           /\ pc # "http_get"
           /\ (~net[k].ok /\ GetsUpTo(k) < 3) =>
                (k < Len(net) /\ net[k + 1].op = "sleep")
           /\ (~net[k].ok /\ GetsUpTo(k) = 3) => k = Len(net)
      /\ \A k \in 1..Len(net) \ Gets :
           /\ net[k].op = "sleep" /\ net[k].what = "backoff"
           /\ k > 1 /\ k - 1 \in Gets /\ ~net[k - 1].ok
           /\ net[k].i = net[k - 1].i
           /\ k < Len(net) => k + 1 \in Gets
      /\ (pc = "aborted" /\ ~calls[Len(calls)].fetched) <=>
           (Cardinality(Gets) = 3 /\ \A k \in Gets : ~net[k].ok)

\* a fetch that succeeds on its third request, after waits of backoff^0 and
\* backoff^1
C13_Witness ==
    /\ ZipLog /\ Len(net) = 5 /\ net[5].ok
    /\ net[2].op = "sleep" /\ net[2].i = 0
    /\ net[4].op = "sleep" /\ net[4].i = 1
    /\ calls[Len(calls)].returned /\ calls[Len(calls)].rows # <<>>

\* C14: for a detail page that was fetched, a domain parser is chosen
\* exactly when the lower-cased host of the URL is a registry domain or ends
\* with one after a dot, and for every other host, those that hold a
\* registry domain elsewhere included, the generic extractor runs and the
\* status is "fallback".
C14_Dispatch ==
    (ret.op = "enrich_by_detail" /\ ret.fetched) =>
      LET host     == lower(Authority(call.url))
          specific == \E i \in 1..Len(PARSERS_BY_DOMAIN) :
                         DomInHostAtEnd(PARSERS_BY_DOMAIN[i][1], host)
      IN  /\ ret.fn # "" <=> specific
          /\ ~specific => ret.val["detail_status"] = "fallback"

\* the choice of the parser alone
C14_ChoiceOnly ==
    (ret.op = "enrich_by_detail" /\ ret.fetched) =>
      (ret.fn # "" <=>
         \E i \in 1..Len(PARSERS_BY_DOMAIN) :
            DomInHostAtEnd(PARSERS_BY_DOMAIN[i][1], lower(Authority(call.url))))

\* the members of the archive that can be read and parsed
RECURSIVE GoodMembers(_)
GoodMembers(zf) ==
    IF zf = <<>> THEN <<>>
    ELSE (IF Head(zf).fault = "ok" THEN <<Head(zf)>> ELSE <<>>)
         \o GoodMembers(Tail(zf))

\* C15: once the archive of a day is fetched, the collector returns, and
\* what it returns are the rows of the members that can be read and parsed:
\* a member that cannot be read or parsed is skipped and aborts nothing.
C15_MemberFaultIsolated ==
    \A i \in 1..Len(calls) :
       (calls[i].family = "placsp" /\ calls[i].fetched) =>
         /\ calls[i].returned
         /\ pc # "aborted"
         /\ calls[i].rows =
              placsp_collect(GoodMembers(archive), calls[i].key, args.when,
                             CHOOSE l \in Orderings(cpv_targets) : TRUE,
                             args.cpv_mode, args.cpv_scope)

\* the same for the archives whose .atom members are all readable and
\* parsable
C15_WhenMembersAreGood ==
    (\A j \in 1..Len(archive) : archive[j].atom => archive[j].fault = "ok") =>
      \A i \in 1..Len(calls) :
         (calls[i].family = "placsp" /\ calls[i].fetched) =>
           /\ calls[i].returned
           /\ calls[i].rows =
                placsp_collect(GoodMembers(archive), calls[i].key, args.when,
                               CHOOSE l \in Orderings(cpv_targets) : TRUE,
                               args.cpv_mode, args.cpv_scope)

\* C16: in every record the feed collector emits the amount-source tag is
\* non-empty exactly when the amount is non-empty, and a record tagged
\* "feed" carries the amount found in the feed text of its entry.
C16_AmountProvenance ==
    [][Len(rss_rows') = Len(rss_rows) + 1 =>
         LET r == rss_rows'[Len(rss_rows')]
         IN  /\ r.importe_source # "" <=> r.importe # ""
             /\ r.importe_source = "feed" => r.importe = Entry.importe]_vars

\* an enriched record tagged "feed" whose page shows another amount, after
\* a record without amount and without tag
C16_Witness ==
    \E i, j \in 1..Len(rss_rows) :
       /\ i < j
       /\ rss_rows[i].importe = "" /\ rss_rows[i].importe_source = ""
       /\ rss_rows[j].importe_source = "feed"
       /\ rss_rows[j].detail_status = "exception"
       /\ pages[rss_rows[j].enlace].ok
       /\ pages[rss_rows[j].enlace].amt_label # rss_rows[j].importe

\* what the orchestrator is to call in a run: the archive collector for
\* each day of the window in ascending order, then the feed collector for
\* each configured source in configuration order
RECURSIVE Flatten(_)
Flatten(ss) == IF ss = <<>> THEN <<>> ELSE Head(ss) \o Flatten(Tail(ss))
RECURSIVE Configured(_)
Configured(i) ==
    IF i > Len(conf) THEN <<>>
    ELSE (IF conf[i].name # "" /\ conf[i].url # "" THEN <<i>> ELSE <<>>)
         \o Configured(i + 1)
ExpectedCalls ==
    LET first == args.date[1]
        last  == args.date[Len(args.date)]
        days  == IF args.no_placsp \/ last < first THEN <<>>
                 ELSE [i \in 1..(last - first + 1) |->
                         [family |-> "placsp", key |-> first + i - 1]]
        srcs  == IF args.no_rss THEN <<>>
                 ELSE [i \in 1..Len(Configured(1)) |->
                         [family |-> "rss", key |-> Configured(1)[i]]]
    IN  days \o srcs
CallsMade == [i \in 1..Len(calls) |-> [family |-> calls[i].family,
                                       key |-> calls[i].key]]
RunEnded == pc \in {"dedupe", "done", "aborted"}

\* C12: when a run ends the archive collector has been called exactly once
\* for each day of the window in ascending order, then the feed collector
\* once per configured source in configuration order, and the rows before
\* de-duplication are the rows of those calls in that order.
C12_InvocationOrder ==
    RunEnded =>
      /\ CallsMade = ExpectedCalls
      /\ \A i \in 1..Len(calls) : calls[i].returned
      /\ rows = Flatten([i \in 1..Len(calls) |-> calls[i].rows])

\* the same for the runs in which every archive request succeeds in the end
C12_WhenNoFetchIsFatal ==
    (RunEnded /\ pc # "aborted") =>
      /\ CallsMade = ExpectedCalls
      /\ \A i \in 1..Len(calls) : calls[i].returned
      /\ rows = Flatten([i \in 1..Len(calls) |-> calls[i].rows])

\* C10: cpv_match is true for empty targets, false for empty candidates and
\* non-empty targets, in exact mode true iff the sets intersect, in prefix
\* mode true iff a candidate starts with a target.
C10_CpvMatch ==
    ret.op = "cpv_match" =>
      LET c == call.values
          t == call.targets
      IN  /\ t = {} => ret.val
          /\ (t # {} /\ c = {}) => ~ret.val
          /\ (t # {} /\ call.mode = "exact") =>
               (ret.val <=> \E x \in c : x \in t)
          /\ (t # {} /\ call.mode = "prefix") =>
               (ret.val <=> \E x \in c : \E y \in t : IsPrefixOf(y, x))

\* a prefix call where a target starts with a candidate, and not the reverse
C10_Witness ==
    /\ ret.op = "cpv_match" /\ call.mode = "prefix" /\ ~ret.val
    /\ \E x \in call.values : \E y \in call.targets : IsPrefixOf(x, y)
====
